---- MODULE Spec2Model ----
(***************************************************************************)
(* Model of the RiveAnimation playback controller of                      *)
(* web/04_higher_level/public/javascripts/main.js.                         *)
(*                                                                         *)
(* JavaScript runs every handler to completion, so each action below is    *)
(* one whole handler: a constructor call, a public method call, the        *)
(* settlement of the engine promise, the settlement of the fetch promise   *)
(* chain of one controller, or one setTimeout callback.  The order of the  *)
(* effects inside a handler is kept in the controller's trace.             *)
(***************************************************************************)
EXTENDS Integers, Sequences, FiniteSets

\* ---------------------------------------------------------------- bounds
NumControllers == 3      \* controllers that may be constructed
MaxPlays == 2            \* user calls of play() per controller
MaxOns == 2              \* user calls of on() per controller
MaxAnims == 2            \* animations on the artboard of a fetched file
MaxTicks == 3            \* calls of _draw per controller
MaxPauses == 1           \* user calls of pause() per controller
FrameMs == 16            \* milliseconds between two frames of the host
MaxLoopEvents == 2       \* LoopEvent objects constructed
MaxLoopValue == 3        \* largest loop value handed to LoopEvent

Controllers == 1 .. NumControllers

\* ------------------------------------------------------------ JS values
Undefined == "undefined"
Null == "null"
NoError == "none"

\* The four listener stores the constructor creates (main.js 115-119).
Events == {"load", "loaderror", "play", "loop"}

\* Callables a caller may pass as a listener: one returns, one throws.
Fns == {"fnOk", "fnThrow"}
NotCallable == "notAFunction"

\* Animations an artboard may contain; loopValue indexes loopTypes.
AnimNames == << "a", "b", "c", "d" >>
AnimPool == [k \in 1 .. Len(AnimNames) |-> [name |-> AnimNames[k], loopValue |-> k % 3]]

\* The default artboard of a file, given by its animations.
Artboards == { SubSeq(AnimPool, 1, n) : n \in 0 .. MaxAnims }

\* What the fetch + arrayBuffer + rive.load chain can yield.
FetchRejected == "fetchRejected"
LoadThrows == "loadThrows"
LoadYieldsNull == "loadYieldsNull"
FetchOutcomes == {FetchRejected, LoadThrows, LoadYieldsNull}

VARIABLES
    _rive,            \* module variable _rive: Undefined or the engine handle
    _wasmLoadQueue,   \* module variable: controllers whose callback waits
    wasmPromise,      \* state of the promise returned by Rive({...})
    wasmLoads,        \* number of Rive({...}) calls issued
    wasmCallbacks,    \* engine-loaded callbacks invoked, in order
    console,          \* messages logged by the module-level code
    loopEvents,       \* the LoopEvent objects constructed, in order
    anim              \* the RiveAnimation objects

vars == << _rive, _wasmLoadQueue, wasmPromise, wasmLoads, wasmCallbacks,
           console, loopEvents, anim >>

\* ------------------------------------------------------------- helpers
Tr(s, op, arg) == [s EXCEPT !.trace = Append(@, << op, arg >>)]

Throw(s, e) == [Tr(s, "throw", e) EXCEPT !.exc = e]

RECURSIVE Join(_)
Join(names) ==
    IF Len(names) = 0 THEN ""
    ELSE IF Len(names) = 1 THEN names[1]
    ELSE names[1] \o ", " \o Join(Tail(names))

LoadTask == [event |-> "load", action |-> Undefined]
PlayTask == [event |-> "play", action |-> "play"]

\* A field that is null/undefined holds None; a field that is set holds
\* Some(value).
None == << >>
Some(v) == << v >>
IsSet(o) == Len(o) = 1
Val(o) == o[1]

\* An object on which `new RiveAnimation` has not run, or on which the
\* constructor returned at line 76: _src = Undefined and no other field of
\* the object exists (the typed defaults below are never read then).
Blank ==
    [ exists |-> FALSE,
      _src |-> Undefined,
      _animationNames |-> None,
      _autoplay |-> FALSE,
      _rive |-> None,
      _loaded |-> FALSE,
      _queue |-> << >>,
      _on |-> [e \in Events |-> << >>],
      fetch |-> "none",
      _file |-> None,
      _artboard |-> None,
      _ctx |-> Null,
      _renderer |-> Undefined,
      _animations |-> None,
      _instances |-> None,
      _loopCounts |-> None,
      raf |-> 0,
      timeouts |-> << >>,
      emits |-> << >>,
      calls |-> << >>,
      trace |-> << >>,
      exc |-> NoError,
      plays |-> 0,
      ons |-> 0,
      enq |-> 0,
      ran |-> << >>,
      _lastTime |-> None,
      clock |-> 0,
      frame |-> 0,
      ticks |-> 0,
      pauses |-> 0,
      signals |-> << >>,
      tick |-> None ]

HasFields(s) == s._src # Undefined

\* self._queue.push(task), main.js 123, 129, 410.  A task object keeps in
\* id its rank among the tasks pushed on this controller.
Enqueue(s, task) ==
    [s EXCEPT !._queue = Append(@, [event |-> task.event,
                                    action |-> task.action,
                                    id |-> s.enq + 1]),
              !.enq = @ + 1]

\* main.js 49: the index of the type is the value that comes from Wasm.
loopTypes == << "oneShot", "loop", "pingPong" >>

\* loopTypes[loopValue], an array read: undefined outside 0 .. length - 1.
LoopTypeAt(loopValue) ==
    IF loopValue \in 0 .. Len(loopTypes) - 1
    THEN loopTypes[loopValue + 1]
    ELSE Undefined

\* A LoopEvent object none of whose fields is set.
EmptyObject == [animationName |-> None, loopType |-> None, loopName |-> None]

\* main.js 54-62: new LoopEvent({animationName, loopValue}).  obj is the
\* object the new expression yields (the return of line 57 leaves the fresh
\* object as the result), log what the constructor wrote with console.error.
LoopEvent(animationName, loopValue) ==
    IF loopValue < 0 \/ loopValue > Len(loopTypes)
    THEN [obj |-> EmptyObject, log |-> << "Invalid loop value" >>]
    ELSE [obj |-> [animationName |-> Some(animationName),
                   loopType |-> Some(loopValue),
                   loopName |-> Some(LoopTypeAt(loopValue))],
          log |-> << >>]

\* ------------------------------------------------ RiveAnimation.prototype

\* The loop of main.js 205 stopping at i > 0: the first listener is skipped.
RECURSIVE ScheduleAllButFirst(_, _, _, _, _)
ScheduleAllButFirst(s, events, i, em, msg) ==
    IF i <= 1 THEN s
    ELSE ScheduleAllButFirst(
             [s EXCEPT !.timeouts =
                 Append(@, [em |-> em, i |-> i, fn |-> events[i], msg |-> msg])],
             events, i - 1, em, msg)

\* The loop of main.js 205 calling fn.call(this, msg) at once, not from a
\* setTimeout callback.
RECURSIVE ScheduleListenersSync(_, _, _, _, _)
ScheduleListenersSync(s, events, i, em, msg) ==
    IF i = 0 THEN s
    ELSE ScheduleListenersSync(
             [s EXCEPT !.calls =
                 Append(@, [em |-> em, i |-> i, fn |-> events[i], msg |-> msg])],
             events, i - 1, em, msg)

\* main.js 205-209: one setTimeout per entry of the listener store, from the
\* last entry down to the first.
RECURSIVE ScheduleListeners(_, _, _, _, _)
ScheduleListeners(s, events, i, em, msg) ==
    IF i = 0 THEN s
    ELSE ScheduleListeners(
             [s EXCEPT !.timeouts =
                 Append(@, [em |-> em, i |-> i, fn |-> events[i], msg |-> msg])],
             events, i - 1, em, msg)

RECURSIVE _emit(_, _, _), _loadQueue(_, _), play(_)

\* main.js 200-215
_emit(s, event, msg) ==
    LET events == s._on[event]
        em == Len(s.emits) + 1
        s1 == [Tr(s, "emit", event) EXCEPT
                  !.emits = Append(@, [event |-> event, msg |-> msg,
                                       listeners |-> events])]
        s2 == ScheduleListeners(s1, events, Len(events), em, msg)
    IN  _loadQueue(s2, event)

\* task.action() of main.js 237: the closure of lines 131-133 / 412-414, or
\* a TypeError when the task has no action.
RunAction(s, task) ==
    IF task.action = Undefined
    THEN Throw(Tr(s, "action", Undefined), "TypeError")
    ELSE play(Tr([s EXCEPT !.ran = Append(@, task.id)], "action", task.action))

\* _loadQueue without the test of line 231: the head task is removed
\* whatever event has occurred.
LoadQueueAnyEvent(s, event) ==
    IF Len(s._queue) > 0
    THEN LET task == s._queue[1]
             s1 == _loadQueue([s EXCEPT !._queue = Tail(@)], Undefined)
         IN  IF s1.exc # NoError THEN s1
             ELSE IF event = Undefined THEN RunAction(s1, task)
             ELSE s1
    ELSE s

\* _loadQueue without the test of line 236: the head task's action is run
\* whatever the argument.
LoadQueueAlwaysRuns(s, event) ==
    IF Len(s._queue) > 0
    THEN LET task == s._queue[1]
             s1 == IF task.event = event
                   THEN _loadQueue([s EXCEPT !._queue = Tail(@)], Undefined)
                   ELSE s
         IN  IF s1.exc # NoError THEN s1
             ELSE RunAction(s1, task)
    ELSE s

\* _loadQueue without line 236-238: the head task's action is never run.
LoadQueueNeverRuns(s, event) ==
    IF Len(s._queue) > 0 /\ s._queue[1].event = event
    THEN _loadQueue([s EXCEPT !._queue = Tail(@)], Undefined)
    ELSE s

\* _loadQueue with the test of line 231 also taking 'loaderror' for the event
\* of the head task.
LoadQueueLoadError(s, event) ==
    IF Len(s._queue) > 0
    THEN LET task == s._queue[1]
             s1 == IF task.event = event \/ event = "loaderror"
                   THEN _loadQueue([s EXCEPT !._queue = Tail(@)], Undefined)
                   ELSE s
         IN  IF s1.exc # NoError THEN s1
             ELSE IF event = Undefined THEN RunAction(s1, task)
             ELSE s1
    ELSE s

\* _loadQueue with line 236 testing that the event of the task has occurred:
\* the action of the task that is removed is the one that is called.
LoadQueueRunsMatched(s, event) ==
    IF Len(s._queue) > 0
    THEN LET task == s._queue[1]
             s1 == IF task.event = event
                   THEN _loadQueue([s EXCEPT !._queue = Tail(@)], Undefined)
                   ELSE s
         IN  IF s1.exc # NoError THEN s1
             ELSE IF task.event = event THEN RunAction(s1, task)
             ELSE s1
    ELSE s

\* main.js 224-242; event = Undefined is the call without an argument.
_loadQueue(s, event) ==
    IF Len(s._queue) > 0
    THEN LET task == s._queue[1]
             s1 == IF task.event = event
                   THEN _loadQueue([s EXCEPT !._queue = Tail(@)], Undefined)
                   ELSE s
         IN  IF s1.exc # NoError THEN s1
             ELSE IF event = Undefined THEN RunAction(s1, task)
             ELSE s1
    ELSE s

\* main.js 406-425
play(s) ==
    IF ~HasFields(s)
    THEN \* !undefined holds, then undefined.push(...)
         Throw(s, "TypeError")
    ELSE IF ~s._loaded
    THEN Enqueue(s, PlayTask)
    ELSE LET s1 == Tr([s EXCEPT !.raf = @ + 1], "raf", "_draw")
         IN  IF ~IsSet(s1._animationNames)
             THEN \* null.join(', ')
                  Throw(s1, "TypeError")
             ELSE _emit(s1, "play",
                        "Playing: " \o Join(Val(s1._animationNames)))

\* main.js 392-401; event may be a name for which no store exists.
on(s, event, fn) ==
    IF fn \in Fns
    THEN IF ~HasFields(s) \/ event \notin Events
         THEN \* undefined.push(...)
              Throw(s, "TypeError")
         ELSE [s EXCEPT !._on[event] = Append(@, fn)]
    ELSE s

\* main.js 206-208: the body of one setTimeout callback, fn.call(this, msg).
CallListener(s, t) ==
    LET s1 == [s EXCEPT !.calls = Append(@, t)]
    IN  IF t.fn = "fnThrow" THEN Throw(s1, "ListenerError") ELSE s1

\* artboard.animation(name): the animation of that name
AnimationNamed(artboard, name) ==
    LET i == CHOOSE j \in 1 .. Len(artboard) : artboard[j].name = name
    IN  artboard[i]

\* main.js 247-282
_initializePlayback(s) ==
    LET artboard == Val(s._file)
        s1 == [s EXCEPT !._artboard = Some(artboard)]
    IN  IF Len(artboard) < 1
        THEN LET s2 == _emit(s1, "loaderror", "Artboard has no animations")
             IN  IF s2.exc # NoError THEN s2
                 ELSE Throw(s2, "Artboard has no animations")
        ELSE LET animations ==
                     IF ~IsSet(s1._animationNames)
                     THEN << artboard[1] >>
                     ELSE [k \in 1 .. Len(Val(s1._animationNames)) |->
                              AnimationNamed(artboard,
                                             Val(s1._animationNames)[k])]
             IN  Tr([s1 EXCEPT
                        !._ctx = "ctx2d",
                        !._renderer = "CanvasRenderer",
                        !._animations = Some(animations),
                        !._instances =
                            Some([k \in 1 .. Len(animations) |-> animations[k].name]),
                        !._loopCounts =
                            Some([k \in 1 .. Len(animations) |-> 0]),
                        !.signals = [k \in 1 .. Len(animations) |-> 0]],
                    "init", "done")

\* main.js 287-303
_paintFrame(s) ==
    IF s._ctx = Null
    THEN Throw(s, "TypeError")
    ELSE Tr(s, "paint", "frame")

\* Lines 316-318 of main.js left out: a tick without a recorded timestamp
\* measures from 0.
PreviousTimeFromZero(s, time) ==
    IF ~IsSet(s._lastTime) THEN 0 ELSE Val(s._lastTime)

\* main.js 316-321: the previous timestamp the tick measures from; an unset
\* or zero _lastTime is replaced by the timestamp of the tick.
PreviousTime(s, time) ==
    IF ~IsSet(s._lastTime) \/ Val(s._lastTime) = 0
    THEN time
    ELSE Val(s._lastTime)

\* What the engine does during one tick: didLoop[i] is the didLoop flag of
\* instance i after its advance, fault the engine call that throws.
NoFault == "none"
Faults == {"advance", "draw"}

\* main.js 324-333: every instance is advanced and applied; a raw loop signal
\* adds one to the counter of the instance.  signals counts the raw signals
\* each instance has reported.
AdvanceInstances(s, eng) ==
    IF ~IsSet(s._instances) THEN s
    ELSE IF eng.fault = "advance" /\ Len(Val(s._instances)) > 0
    THEN Throw(s, "EngineError")
    ELSE [s EXCEPT
             !._loopCounts =
                 Some([k \in 1 .. Len(Val(s._loopCounts)) |->
                          Val(s._loopCounts)[k] + (IF eng.didLoop[k] THEN 1 ELSE 0)]),
             !.signals =
                 [k \in 1 .. Len(s.signals) |->
                     s.signals[k] + (IF eng.didLoop[k] THEN 1 ELSE 0)]]

\* main.js 337-350: the artboard is advanced, the canvas cleared and the
\* frame rendered.
RenderFrame(s, eng) ==
    IF eng.fault = "advance" THEN Throw(s, "EngineError")
    ELSE IF s._ctx = Null THEN Throw(s, "TypeError")
    ELSE IF eng.fault = "draw" THEN Throw(s, "EngineError")
    ELSE Tr(s, "draw", "frame")

\* The switch of main.js 353-378 with case 1 testing the counter as case 2.
LoopDueLoopAsPingPong(loopValue, count) ==
    \/ loopValue = 1 /\ count > 1
    \/ loopValue = 2 /\ count > 1

\* The switch of main.js 353-378 with case 2 testing the counter as case 1.
LoopDuePingPongAsLoop(loopValue, count) ==
    \/ loopValue = 1 /\ count # 0
    \/ loopValue = 2 /\ count # 0

\* The switch of main.js 353-378 with case 0 falling through to case 1.
LoopDueOneShotAsLoop(loopValue, count) ==
    \/ loopValue \in {0, 1} /\ count # 0
    \/ loopValue = 2 /\ count > 1

\* The switch of main.js 353-378: whether a 'loop' event is emitted for an
\* animation of that loop value whose counter is count.
LoopDue(loopValue, count) ==
    \/ loopValue = 1 /\ count # 0
    \/ loopValue = 2 /\ count > 1

\* The loop of main.js 352-379 without the resets of lines 363 and 375.
RECURSIVE EmitLoopsNoReset(_, _)
EmitLoopsNoReset(s, i) ==
    IF s.exc # NoError \/ ~IsSet(s._animations) \/ i > Len(Val(s._animations))
    THEN s
    ELSE LET a == Val(s._animations)[i]
         IN  IF LoopDue(a.loopValue, Val(s._loopCounts)[i])
             THEN LET e == LoopEvent(a.name, a.loopValue)
                      s1 == _emit(s, "loop", e.obj)
                      s2 == [s1 EXCEPT
                                !.tick =
                                    Some([Val(@) EXCEPT
                                             !.emitted = Append(@, i)])]
                  IN  EmitLoopsNoReset(s2, i + 1)
             ELSE EmitLoopsNoReset(s, i + 1)

\* main.js 352-379: the animations from index i on are classified in turn.
RECURSIVE EmitLoops(_, _)
EmitLoops(s, i) ==
    IF s.exc # NoError \/ ~IsSet(s._animations) \/ i > Len(Val(s._animations))
    THEN s
    ELSE LET a == Val(s._animations)[i]
         IN  IF LoopDue(a.loopValue, Val(s._loopCounts)[i])
             THEN LET e == LoopEvent(a.name, a.loopValue)
                      s1 == _emit(s, "loop", e.obj)
                      s2 == [s1 EXCEPT
                                !._loopCounts =
                                    Some([Val(@) EXCEPT ![i] = 0]),
                                !.tick =
                                    Some([Val(@) EXCEPT
                                             !.emitted = Append(@, i)])]
                  IN  EmitLoops(s2, i + 1)
             ELSE EmitLoops(s, i + 1)

\* main.js 386 left out: the tick ends without requesting a frame.
ScheduleNothing(s) == s

\* main.js 386
ScheduleNextTick(s) == Tr([s EXCEPT !.raf = @ + 1], "raf", "_draw")

\* _draw with its body in a try block whose handler drops the error and
\* requests the next frame.
DrawCatches(s, time, eng) ==
    LET s0 == [s EXCEPT
                  !._lastTime = Some(time),
                  !.tick = Some([time |-> time,
                                 elapsedTime |-> << time - PreviousTime(s, time), 1000 >>,
                                 didLoop |-> eng.didLoop,
                                 fault |-> eng.fault,
                                 emitted |-> << >>,
                                 completed |-> FALSE])]
        s1 == AdvanceInstances(s0, eng)
        s2 == IF s1.exc # NoError THEN s1 ELSE RenderFrame(s1, eng)
        s3 == IF s2.exc # NoError THEN s2 ELSE EmitLoops(s2, 1)
    IN  IF s3.exc # NoError
        THEN ScheduleNextTick([s3 EXCEPT !.exc = NoError])
        ELSE ScheduleNextTick([s3 EXCEPT
                                  !.tick = Some([Val(@) EXCEPT !.completed = TRUE])])

\* main.js 308-387: one tick of the frame loop at timestamp time.  tick
\* keeps what the last tick was given and what it emitted.
_draw(s, time, eng) ==
    LET s0 == [s EXCEPT
                  !._lastTime = Some(time),
                  !.tick = Some([time |-> time,
                                 elapsedTime |-> << time - PreviousTime(s, time), 1000 >>,
                                 didLoop |-> eng.didLoop,
                                 fault |-> eng.fault,
                                 emitted |-> << >>,
                                 completed |-> FALSE])]
        s1 == AdvanceInstances(s0, eng)
        s2 == IF s1.exc # NoError THEN s1 ELSE RenderFrame(s1, eng)
        s3 == IF s2.exc # NoError THEN s2 ELSE EmitLoops(s2, 1)
    IN  IF s3.exc # NoError THEN s3
        ELSE ScheduleNextTick([s3 EXCEPT
                                  !.tick = Some([Val(@) EXCEPT !.completed = TRUE])])

\* main.js 430: pause does nothing.
pause(s) == s

\* An error that leaves a handler reaches the host (an uncaught exception
\* or an unhandled promise rejection).
ToHost(s) ==
    IF s.exc = NoError THEN s
    ELSE [Tr(s, "uncaught", s.exc) EXCEPT !.exc = NoError]

\* The callback of main.js 166-186 emitting 'load' as soon as the file is
\* there, before playback is initialized and the first frame painted.
ThenBufferEmitsFirst(s, r) ==
    IF r.kind = LoadThrows THEN Throw(s, "LoadError")
    ELSE IF r.kind = LoadYieldsNull THEN [s EXCEPT !._file = None]
    ELSE LET s1 == [s EXCEPT !._file = Some(r.artboard), !._loaded = TRUE]
             s2 == _emit(s1, "load", "File " \o s1._src \o " loaded")
             s3 == IF s2.exc # NoError THEN s2 ELSE _initializePlayback(s2)
         IN  IF s3.exc # NoError THEN s3 ELSE _paintFrame(s3)

\* main.js 166-186: the callback that receives the fetched bytes; r is what
\* self._rive.load does with them.
ThenBuffer(s, r) ==
    IF r.kind = LoadThrows THEN Throw(s, "LoadError")
    ELSE IF r.kind = LoadYieldsNull THEN [s EXCEPT !._file = None]
    ELSE LET s1 == [s EXCEPT !._file = Some(r.artboard), !._loaded = TRUE]
             s2 == _initializePlayback(s1)
             s3 == IF s2.exc # NoError THEN s2 ELSE _paintFrame(s2)
         IN  IF s3.exc # NoError THEN s3
             ELSE _emit(s3, "load", "File " \o s3._src \o " loaded")

\* main.js 187-191: the rejection handler of the chain; it rethrows.
CatchLoad(s) ==
    IF s.exc = NoError THEN s
    ELSE LET e == s.exc
             s1 == _emit([s EXCEPT !.exc = NoError], "loaderror",
                         "Unable to load " \o s._src)
         IN  IF s1.exc # NoError THEN s1 ELSE Throw(s1, e)

\* main.js 160-165: fetch(req) is issued; its chain settles later.
_loadRiveFile(s) == Tr([s EXCEPT !.fetch = "pending"], "fetch", s._src)

\* main.js 150-155
_wasmLoadEvent(s, rive) == _loadRiveFile([s EXCEPT !._rive = Some(rive)])

\* main.js 67-136: the object the constructor leaves, before line 138.
Listener(fn) == IF fn \in Fns THEN << fn >> ELSE << >>

\* The constructor without the return of line 76.
RiveAnimationNoSrcCheck(cfg) ==
    LET s == [Blank EXCEPT
                 !.exists = TRUE,
                 !._src = cfg.src,
                 !._animationNames =
                     IF cfg.animations.t = "absent" THEN None
                     ELSE Some(cfg.animations.v),
                 !._autoplay = cfg.autoplay,
                 !._loaded = FALSE,
                 !._on = [e \in Events |-> Listener(cfg.on[e])],
                 !._queue = << >>]
        s1 == Enqueue(s, LoadTask)
    IN  IF s1._autoplay
        THEN Enqueue(s1, PlayTask)
        ELSE s1

RiveAnimation(cfg) ==
    IF cfg.src = ""
    THEN Tr([Blank EXCEPT !.exists = TRUE], "error", "Rive source file is required.")
    ELSE LET s == [Blank EXCEPT
                      !.exists = TRUE,
                      !._src = cfg.src,
                      !._animationNames =
                          IF cfg.animations.t = "absent" THEN None
                          ELSE Some(cfg.animations.v),
                      !._autoplay = cfg.autoplay,
                      !._loaded = FALSE,
                      !._on = [e \in Events |-> Listener(cfg.on[e])],
                      !._queue = << >>]
             s1 == Enqueue(s, LoadTask)
         IN  IF s1._autoplay
             THEN Enqueue(s1, PlayTask)
             ELSE s1

\* ------------------------------------------------------------ module level

\* The loop of main.js 23-25 taking the callbacks from the end of the wait
\* queue (pop) instead of its front.
RECURSIVE FireCallbacksFromEnd(_, _, _, _)
FireCallbacksFromEnd(q, a, log, rive) ==
    IF Len(q) = 0 THEN [anim |-> a, log |-> log]
    ELSE FireCallbacksFromEnd(SubSeq(q, 1, Len(q) - 1),
                              [a EXCEPT ![q[Len(q)]] = _wasmLoadEvent(@, rive)],
                              Append(log, << q[Len(q)], rive >>),
                              rive)

\* main.js 23-25: fire all the queued callbacks, first in first out.
RECURSIVE FireCallbacks(_, _, _, _)
FireCallbacks(q, a, log, rive) ==
    IF Len(q) = 0 THEN [anim |-> a, log |-> log]
    ELSE FireCallbacks(Tail(q),
                       [a EXCEPT ![Head(q)] = _wasmLoadEvent(@, rive)],
                       Append(log, << Head(q), rive >>),
                       rive)

Init ==
    /\ _rive = None
    /\ _wasmLoadQueue = << >>
    /\ wasmPromise = "pending"       \* line 46: _loadWasm() has been called
    /\ wasmLoads = 1
    /\ wasmCallbacks = << >>
    /\ console = << >>
    /\ loopEvents = << >>
    /\ anim = [c \in Controllers |-> Blank]

\* main.js 19-25: the engine promise resolves.
WasmResolves ==
    /\ wasmPromise = "pending"
    /\ wasmPromise' = "resolved"
    /\ _rive' = Some(wasmLoads)
    /\ LET r == FireCallbacks(_wasmLoadQueue, anim, wasmCallbacks, wasmLoads)
       IN  /\ anim' = r.anim
           /\ wasmCallbacks' = r.log
    /\ _wasmLoadQueue' = << >>
    /\ UNCHANGED << wasmLoads, console, loopEvents >>

\* main.js 26-29: the engine promise rejects; the error is logged and
\* rethrown.
WasmRejects ==
    /\ wasmPromise = "pending"
    /\ wasmPromise' = "rejected"
    /\ console' = Append(console, "Unable to load Wasm module")
    /\ UNCHANGED << _rive, _wasmLoadQueue, wasmLoads, wasmCallbacks, loopEvents, anim >>

\* Construct with _onWasmLoaded issuing the engine load again while the
\* engine is not there yet.
ConstructReloads(c, cfg) ==
    /\ ~anim[c].exists
    /\ \A d \in Controllers : d < c => anim[d].exists
    /\ LET s == [RiveAnimation(cfg) EXCEPT
                    !.trace = << << "new", cfg.src >> >> \o @]
       IN  IF ~HasFields(s)
           THEN /\ anim' = [anim EXCEPT ![c] = s]
                /\ UNCHANGED << _wasmLoadQueue, wasmCallbacks, wasmLoads, console >>
           ELSE IF IsSet(_rive)
           THEN /\ anim' = [anim EXCEPT ![c] =
                               _wasmLoadEvent(Tr(s, "log", "Wasm loaded, fire immediately"),
                                              Val(_rive))]
                /\ wasmCallbacks' = Append(wasmCallbacks, << c, Val(_rive) >>)
                /\ console' = Append(console, "Wasm loaded, fire immediately")
                /\ UNCHANGED << _wasmLoadQueue, wasmLoads >>
           ELSE /\ _wasmLoadQueue' = Append(_wasmLoadQueue, c)
                /\ console' = Append(console, "Waiting for Wasm to load")
                /\ anim' = [anim EXCEPT ![c] = Tr(s, "log", "Waiting for Wasm to load")]
                /\ wasmLoads' = wasmLoads + 1
                /\ UNCHANGED wasmCallbacks
    /\ UNCHANGED << _rive, wasmPromise, loopEvents >>

\* Construct with _onWasmLoaded calling _loadWasm again when the engine load
\* has failed.
ConstructRetries(c, cfg) ==
    /\ ~anim[c].exists
    /\ \A d \in Controllers : d < c => anim[d].exists
    /\ LET s == [RiveAnimation(cfg) EXCEPT
                    !.trace = << << "new", cfg.src >> >> \o @]
       IN  IF ~HasFields(s)
           THEN /\ anim' = [anim EXCEPT ![c] = s]
                /\ UNCHANGED << _wasmLoadQueue, wasmCallbacks, wasmLoads,
                                wasmPromise, console >>
           ELSE IF IsSet(_rive)
           THEN /\ anim' = [anim EXCEPT ![c] =
                               _wasmLoadEvent(Tr(s, "log", "Wasm loaded, fire immediately"),
                                              Val(_rive))]
                /\ wasmCallbacks' = Append(wasmCallbacks, << c, Val(_rive) >>)
                /\ console' = Append(console, "Wasm loaded, fire immediately")
                /\ UNCHANGED << _wasmLoadQueue, wasmLoads, wasmPromise >>
           ELSE /\ _wasmLoadQueue' = Append(_wasmLoadQueue, c)
                /\ console' = Append(console, "Waiting for Wasm to load")
                /\ anim' = [anim EXCEPT ![c] = Tr(s, "log", "Waiting for Wasm to load")]
                /\ wasmLoads' = IF wasmPromise = "rejected"
                                THEN wasmLoads + 1 ELSE wasmLoads
                /\ wasmPromise' = "pending"
                /\ UNCHANGED wasmCallbacks
    /\ UNCHANGED << _rive, loopEvents >>

\* new RiveAnimation(cfg), main.js 67-139, with _onWasmLoaded (33-43).
Construct(c, cfg) ==
    /\ ~anim[c].exists
    /\ \A d \in Controllers : d < c => anim[d].exists
    /\ LET s == [RiveAnimation(cfg) EXCEPT
                    !.trace = << << "new", cfg.src >> >> \o @]
       IN  IF ~HasFields(s)
           THEN /\ anim' = [anim EXCEPT ![c] = s]
                /\ UNCHANGED << _wasmLoadQueue, wasmCallbacks, console >>
           ELSE IF IsSet(_rive)
           THEN /\ anim' = [anim EXCEPT ![c] =
                               _wasmLoadEvent(Tr(s, "log", "Wasm loaded, fire immediately"),
                                              Val(_rive))]
                /\ wasmCallbacks' = Append(wasmCallbacks, << c, Val(_rive) >>)
                /\ console' = Append(console, "Wasm loaded, fire immediately")
                /\ UNCHANGED _wasmLoadQueue
           ELSE /\ _wasmLoadQueue' = Append(_wasmLoadQueue, c)
                /\ console' = Append(console, "Waiting for Wasm to load")
                /\ anim' = [anim EXCEPT ![c] = Tr(s, "log", "Waiting for Wasm to load")]
                /\ UNCHANGED wasmCallbacks
    /\ UNCHANGED << _rive, wasmPromise, wasmLoads, loopEvents >>

\* The fetch of main.js 164 (or res.arrayBuffer()) rejects.
FetchRejects(c) ==
    /\ anim[c].fetch = "pending"
    /\ anim' = [anim EXCEPT ![c] =
                   ToHost(CatchLoad(Throw([@ EXCEPT !.fetch = "settled"],
                                          "FetchError")))]
    /\ UNCHANGED << _rive, _wasmLoadQueue, wasmPromise, wasmLoads, wasmCallbacks,
                    console, loopEvents >>

\* The fetched bytes arrive: main.js 166-191 runs.
BufferArrives(c, r) ==
    /\ anim[c].fetch = "pending"
    /\ anim' = [anim EXCEPT ![c] =
                   ToHost(CatchLoad(ThenBuffer(
                       Tr([@ EXCEPT !.fetch = "settled"], "rive.load", r.kind),
                       r)))]
    /\ UNCHANGED << _rive, _wasmLoadQueue, wasmPromise, wasmLoads, wasmCallbacks,
                    console, loopEvents >>

\* The caller calls controller.play().
PlayCall(c) ==
    /\ anim[c].exists
    /\ anim[c].plays < MaxPlays
    /\ anim' = [anim EXCEPT ![c] =
                   ToHost(play(Tr([@ EXCEPT !.plays = @ + 1], "call", "play")))]
    /\ UNCHANGED << _rive, _wasmLoadQueue, wasmPromise, wasmLoads, wasmCallbacks,
                    console, loopEvents >>

\* The caller calls controller.on(event, fn).
OnCall(c, event, fn) ==
    /\ anim[c].exists
    /\ anim[c].ons < MaxOns
    /\ anim' = [anim EXCEPT ![c] =
                   ToHost(on([@ EXCEPT !.ons = @ + 1], event, fn))]
    /\ UNCHANGED << _rive, _wasmLoadQueue, wasmPromise, wasmLoads, wasmCallbacks,
                    console, loopEvents >>

\* The host runs the oldest pending setTimeout callback of a controller.
Timeout(c) ==
    /\ Len(anim[c].timeouts) > 0
    /\ anim' = [anim EXCEPT ![c] =
                   ToHost(CallListener([@ EXCEPT !.timeouts = Tail(@)],
                                       Head(anim[c].timeouts)))]
    /\ UNCHANGED << _rive, _wasmLoadQueue, wasmPromise, wasmLoads, wasmCallbacks,
                    console, loopEvents >>

\* The host runs one pending requestAnimationFrame callback of a controller.
\* The callbacks pending when a frame starts all run in that frame, with the
\* timestamp of the frame; a callback requested meanwhile waits for the next.
Tick(c, eng) ==
    /\ anim[c].raf > 0
    /\ anim[c].ticks < MaxTicks
    /\ LET s == anim[c]
           time == IF s.frame = 0 THEN s.clock + FrameMs ELSE s.clock
           s1 == [s EXCEPT !.clock = time,
                           !.frame = (IF s.frame = 0 THEN s.raf ELSE @) - 1,
                           !.raf = @ - 1,
                           !.ticks = @ + 1]
       IN  anim' = [anim EXCEPT ![c] = ToHost(_draw(s1, time, eng))]
    /\ UNCHANGED << _rive, _wasmLoadQueue, wasmPromise, wasmLoads, wasmCallbacks,
                    console, loopEvents >>

\* The caller calls controller.pause().
PauseCall(c) ==
    /\ anim[c].exists
    /\ anim[c].pauses < MaxPauses
    /\ anim' = [anim EXCEPT ![c] = ToHost(pause([@ EXCEPT !.pauses = @ + 1]))]
    /\ UNCHANGED << _rive, _wasmLoadQueue, wasmPromise, wasmLoads, wasmCallbacks,
                    console, loopEvents >>

\* new LoopEvent({animationName, loopValue}) evaluated on its own; the
\* arguments are kept next to the object they produced.
NewLoopEvent(animationName, loopValue) ==
    /\ Len(loopEvents) < MaxLoopEvents
    /\ LET e == LoopEvent(animationName, loopValue)
       IN  /\ loopEvents' = Append(loopEvents,
                                   [animationName |-> animationName,
                                    loopValue |-> loopValue,
                                    obj |-> e.obj,
                                    log |-> e.log])
           /\ console' = console \o e.log
    /\ UNCHANGED << _rive, _wasmLoadQueue, wasmPromise, wasmLoads, wasmCallbacks,
                    anim >>

\* ------------------------------------------------------------ inputs
NoListeners == [e \in Events |-> Undefined]
AllListeners == [e \in Events |-> "fnOk"]

AnimationsOptions ==
    { [t |-> "absent", v |-> << >>],
      [t |-> "string", v |-> << "a" >>],
      [t |-> "array", v |-> << "a" >>] }

\* Constructor arguments of the life-cycle specification.
Configs ==
    [ src : {"", "anim.riv"},
      animations : AnimationsOptions,
      autoplay : BOOLEAN,
      on : {NoListeners, AllListeners} ]

\* Constructor arguments of the listener specification.
BusConfigs ==
    [ src : {"", "anim.riv"},
      animations : {[t |-> "array", v |-> << "a" >>]},
      autoplay : BOOLEAN,
      on : {NoListeners, [e \in Events |-> IF e = "load" THEN "fnThrow" ELSE Undefined]} ]

\* Constructor arguments of the engine specification.
EngineConfigs ==
    [ src : {"", "anim.riv"},
      animations : {[t |-> "absent", v |-> << >>], [t |-> "array", v |-> << "a" >>]},
      autoplay : BOOLEAN,
      on : {NoListeners} ]

LoadResults ==
    { [kind |-> k, artboard |-> << >>] : k \in {LoadThrows, LoadYieldsNull} }
    \cup { [kind |-> "file", artboard |-> ab] : ab \in Artboards }

OnEvents == Events \cup {"playerror"}
OnValues == Fns \cup {NotCallable}

\* The first controller: the one the single-controller specifications
\* follow.  Controllers share nothing but _rive and _wasmLoadQueue, which
\* SpecEngine exercises with all of them.
Solo == { c \in Controllers : \A d \in Controllers : c <= d }

\* ------------------------------------------- life cycle of one controller
DoConstruct == \E c \in Solo, cfg \in Configs : Construct(c, cfg)
DoFetchRejects == \E c \in Solo : FetchRejects(c)
DoBufferArrives == \E c \in Solo, r \in LoadResults : BufferArrives(c, r)
DoPlayCall == \E c \in Solo : PlayCall(c)
DoTimeout == \E c \in Solo : Timeout(c)

Next ==
    \/ WasmResolves
    \/ WasmRejects
    \/ DoConstruct
    \/ DoFetchRejects
    \/ DoBufferArrives
    \/ DoPlayCall
    \/ DoTimeout

Spec == Init /\ [][Next]_vars

\* Every promise settles: the engine promise and each issued fetch.
FairSpec ==
    /\ Spec
    /\ WF_vars(WasmResolves \/ WasmRejects)
    /\ WF_vars(DoFetchRejects \/ DoBufferArrives)

\* ------------------------------------------- listeners of one controller
BusConstruct == \E c \in Solo, cfg \in BusConfigs : Construct(c, cfg)
BusOnCall ==
    \E c \in Solo, e \in OnEvents, fn \in OnValues : OnCall(c, e, fn)
BusBufferArrives ==
    \E c \in Solo :
        BufferArrives(c, [kind |-> "file", artboard |-> SubSeq(AnimPool, 1, 1)])

NextBus ==
    \/ WasmResolves
    \/ BusConstruct
    \/ DoFetchRejects
    \/ BusBufferArrives
    \/ DoPlayCall
    \/ BusOnCall
    \/ DoTimeout

SpecBus == Init /\ [][NextBus]_vars

\* The host runs every pending setTimeout callback.
FairSpecBus == SpecBus /\ WF_vars(DoTimeout)

\* ------------------------------------------- controllers sharing the engine
EngineConstruct == \E c \in Controllers, cfg \in EngineConfigs : Construct(c, cfg)
EngineFetchRejects == \E c \in Controllers : FetchRejects(c)
EngineBufferArrives ==
    \E c \in Controllers :
        BufferArrives(c, [kind |-> "file", artboard |-> SubSeq(AnimPool, 1, 1)])

NextEngine ==
    \/ WasmResolves
    \/ WasmRejects
    \/ EngineConstruct
    \/ EngineFetchRejects
    \/ EngineBufferArrives

SpecEngine == Init /\ [][NextEngine]_vars

\* ------------------------------------------------------- the frame loop
\* Artboards whose first animation is of each loop type in turn, and the
\* artboard without animations.
DrawArtboards ==
    { [k \in 1 .. MaxAnims |-> AnimPool[((n + k - 2) % 3) + 1]] : n \in 1 .. 3 }
    \cup { << >> }

Names(artboard) == [k \in 1 .. Len(artboard) |-> artboard[k].name]

\* Constructor arguments of the frame-loop specification.
DrawConfigs ==
    [ src : {"anim.riv"},
      animations : {[t |-> "absent", v |-> << >>]}
                   \cup { [t |-> "array", v |-> Names(ab)] :
                              ab \in DrawArtboards \ { << >> } },
      autoplay : {FALSE},
      on : {NoListeners} ]

\* What the engine can report to a tick of controller c when no call throws.
EngineReports(c) ==
    [ didLoop : [1 .. Len(anim[c].signals) -> BOOLEAN], fault : {NoFault} ]

DrawConstruct == \E c \in Solo, cfg \in DrawConfigs : Construct(c, cfg)
DrawBufferArrives ==
    \E c \in Solo, ab \in DrawArtboards :
        /\ IsSet(anim[c]._animationNames) => Val(anim[c]._animationNames) = Names(ab)
        /\ BufferArrives(c, [kind |-> "file", artboard |-> ab])
DoTick == \E c \in Solo : \E eng \in EngineReports(c) : Tick(c, eng)

NextDraw ==
    \/ WasmResolves
    \/ DrawConstruct
    \/ DrawBufferArrives
    \/ DoPlayCall
    \/ DoTick

SpecDraw == Init /\ [][NextDraw]_vars

\* ------------------------------------------ the frame loop with engine faults
\* What the engine can do in a tick of controller c, a throwing call included.
FaultReports(c) ==
    [ didLoop : [1 .. Len(anim[c].signals) -> BOOLEAN], fault : {NoFault} \cup Faults ]

\* Files of this specification: one animation of each loop type, or none.
FaultArtboards == { << AnimPool[k] >> : k \in 1 .. 3 } \cup { << >> }

FaultConfigs ==
    [ src : {"anim.riv"},
      animations : {[t |-> "absent", v |-> << >>]}
                   \cup { [t |-> "array", v |-> Names(ab)] :
                              ab \in FaultArtboards \ { << >> } },
      autoplay : {FALSE},
      on : {NoListeners} ]

FaultConstruct == \E c \in Solo, cfg \in FaultConfigs : Construct(c, cfg)
FaultBufferArrives ==
    \E c \in Solo, ab \in FaultArtboards :
        /\ IsSet(anim[c]._animationNames) => Val(anim[c]._animationNames) = Names(ab)
        /\ BufferArrives(c, [kind |-> "file", artboard |-> ab])
FaultTick == \E c \in Solo : \E eng \in FaultReports(c) : Tick(c, eng)

NextFault ==
    \/ WasmResolves
    \/ FaultConstruct
    \/ FaultBufferArrives
    \/ DoPlayCall
    \/ FaultTick

SpecFault == Init /\ [][NextFault]_vars

\* ------------------------------------- the frame loop and the public calls
\* Constructor arguments of the public-call specification.
LoopConfigs ==
    [ src : {"anim.riv"},
      animations : {[t |-> "absent", v |-> << >>], [t |-> "array", v |-> << "a" >>]},
      autoplay : {FALSE},
      on : {NoListeners} ]

LoopConstruct == \E c \in Solo, cfg \in LoopConfigs : Construct(c, cfg)
LoopBufferArrives ==
    \E c \in Solo, n \in 0 .. 1 :
        /\ IsSet(anim[c]._animationNames) => n = 1
        /\ BufferArrives(c, [kind |-> "file", artboard |-> SubSeq(AnimPool, 1, n)])
LoopOnCall == \E c \in Solo, fn \in {"fnOk", NotCallable} : OnCall(c, "loop", fn)
DoPauseCall == \E c \in Solo : PauseCall(c)

NextLoop ==
    \/ WasmResolves
    \/ LoopConstruct
    \/ LoopBufferArrives
    \/ DoPlayCall
    \/ DoPauseCall
    \/ LoopOnCall
    \/ DoTick

SpecLoop == Init /\ [][NextLoop]_vars

\* ------------------------------------------------- the LoopEvent constructor
LoopValues == -1 .. MaxLoopValue

NextLoopEvent ==
    \E k \in 1 .. Len(AnimNames), v \in LoopValues : NewLoopEvent(AnimNames[k], v)

SpecLoopEvent == Init /\ [][NextLoopEvent]_vars

\* ------------------------------------------------------------ observations
\* Positions of an entry in a trace, within lo .. hi.
Count(tr, lo, hi, entry) == Cardinality({ i \in lo .. hi : tr[i] = entry })

HasEntry(tr, entry) == \E i \in 1 .. Len(tr) : tr[i] = entry

Emitted(s, event) == \E i \in 1 .. Len(s.emits) : s.emits[i].event = event

EmitCount(s, event) ==
    Cardinality({ i \in 1 .. Len(s.emits) : s.emits[i].event = event })

\* Position of the (first) 'load' emission in the trace.
LoadPos(s) == CHOOSE i \in 1 .. Len(s.trace) :
                  /\ s.trace[i] = << "emit", "load" >>
                  /\ \A j \in 1 .. i - 1 : s.trace[j] # << "emit", "load" >>

\* Last trace position of the handler that emitted 'load': the handler ends
\* before the next call of the caller or callback of the host.
LoadEnd(s) ==
    LET after == { j \in LoadPos(s) + 1 .. Len(s.trace) :
                      s.trace[j][1] \in {"call", "uncaught"} }
    IN  IF after = {} THEN Len(s.trace)
        ELSE CHOOSE j \in after : \A k \in after : j <= k

\* play() calls the caller made before 'load' fired.
EarlyPlays(s) == Count(s.trace, 1, LoadPos(s), << "call", "play" >>)

\* --------------------------------------------------------------- claims

\* C1 (as stated): for every N >= 1 play() calls made before 'load' fires,
\* with or without autoplay, once 'load' has fired playback initialization
\* has run once, exactly one frame loop has been started, and every queued
\* play action has run without raising an error.
C1_OneSessionPerLoad ==
    \A c \in Controllers :
        LET s == anim[c]
        IN  (Emitted(s, "load") /\ EarlyPlays(s) >= 1) =>
                LET lo == LoadPos(s)
                    hi == LoadEnd(s)
                    queued == EarlyPlays(s) + (IF s._autoplay THEN 1 ELSE 0)
                IN  /\ Count(s.trace, 1, hi, << "init", "done" >>) = 1
                    /\ Count(s.trace, lo, hi, << "raf", "_draw" >>) = 1
                    /\ Count(s.trace, lo, hi, << "action", "play" >>) = queued
                    /\ \A i \in lo .. hi : s.trace[i][1] \notin {"throw", "uncaught"}

\* C2 (as stated): constructed with autoplay, a resolvable src and no
\* animations option, once the asset load has completed the frame loop runs
\* on exactly one instance of the artboard's first animation and 'play' has
\* been emitted.
C2_AutoplayDefaultAnimation ==
    \A c \in Controllers :
        LET s == anim[c]
        IN  (/\ s._autoplay
             /\ ~IsSet(s._animationNames)
             /\ Emitted(s, "load")) =>
                /\ s.raf >= 1
                /\ IsSet(s._instances)
                /\ Val(s._instances) = << Val(s._artboard)[1].name >>
                /\ Emitted(s, "play")

\* The load of a controller has failed: the engine promise rejected, or the
\* fetch chain settled without a 'load' emission.
LoadFailed(c) ==
    \/ wasmPromise = "rejected"
    \/ anim[c].fetch = "settled" /\ ~Emitted(anim[c], "load")

\* C3: when play() has been called on a controller that is not loaded yet
\* and the engine load and the asset load then succeed, the frame loop is
\* eventually started (_draw scheduled through requestAnimationFrame)
\* without a further call of the caller.
C3_EarlyPlayStartsLoop ==
    \A c \in Controllers :
        (HasFields(anim[c]) /\ ~anim[c]._loaded /\ anim[c].plays >= 1)
            ~> (anim[c].raf >= 1 \/ LoadFailed(c))

C3_Witness ==
    \E c \in Controllers :
        /\ Emitted(anim[c], "load")
        /\ EarlyPlays(anim[c]) >= 1
        /\ anim[c].raf >= 1
        /\ Count(anim[c].trace, LoadPos(anim[c]), Len(anim[c].trace),
                 << "call", "play" >>) = 0

\* Entries of a sequence of listener invocations that belong to listener i
\* of emission n.
Invocations(seq, n, i) == { k \in 1 .. Len(seq) : seq[k].em = n /\ seq[k].i = i }

\* Every listener registered when an emission was made has exactly one
\* invocation, pending or done, and it carries the emission's payload; no
\* other invocation exists.
ExactlyOncePerEmission(s) ==
    /\ \A n \in 1 .. Len(s.emits) :
           \A i \in 1 .. Len(s.emits[n].listeners) :
               /\ Cardinality(Invocations(s.timeouts, n, i))
                      + Cardinality(Invocations(s.calls, n, i)) = 1
               /\ \A k \in Invocations(s.calls, n, i) :
                      /\ s.calls[k].msg = s.emits[n].msg
                      /\ s.calls[k].fn = s.emits[n].listeners[i]
    /\ \A k \in 1 .. Len(s.calls) :
           /\ s.calls[k].em \in 1 .. Len(s.emits)
           /\ s.calls[k].i \in 1 .. Len(s.emits[s.calls[k].em].listeners)

\* C4: each of the k listeners registered for e when _emit(e, payload) is
\* called is eventually invoked with payload, exactly once for that
\* emission, also when another listener throws: at every moment each such
\* listener has exactly one invocation, pending or done, and again and again
\* no invocation is pending.
C4_ListenersInvokedOnce ==
    /\ [](\A c \in Controllers : ExactlyOncePerEmission(anim[c]))
    /\ []<>(\A c \in Controllers : anim[c].timeouts = << >>)

\* An emission with two listeners, one registered by on(), whose throwing
\* listener was invoked before the other one, all invocations done.
C4_Witness ==
    \E c \in Controllers :
        /\ anim[c].timeouts = << >>
        /\ anim[c].ons >= 1
        /\ \E n \in 1 .. Len(anim[c].emits) :
               /\ Len(anim[c].emits[n].listeners) >= 2
               /\ \E k1, k2 \in 1 .. Len(anim[c].calls) :
                      /\ k1 < k2
                      /\ anim[c].calls[k1].em = n
                      /\ anim[c].calls[k2].em = n
                      /\ anim[c].calls[k1].fn = "fnThrow"
                      /\ anim[c].calls[k2].fn = "fnOk"

\* C5: however many controllers are constructed while the engine load is in
\* flight or after it has resolved, the engine load is issued exactly once
\* and every engine-loaded callback receives the same engine handle.
C5_OneEngineLoad ==
    /\ wasmLoads = 1
    /\ \A k \in 1 .. Len(wasmCallbacks) :
           /\ IsSet(_rive)
           /\ wasmCallbacks[k][2] = Val(_rive)
           /\ wasmCallbacks[k][2] = wasmCallbacks[1][2]
    /\ \A c \in Controllers : IsSet(anim[c]._rive) => anim[c]._rive = _rive

\* One controller waited for the engine, another was constructed after it
\* had resolved, and both callbacks have run.
C5_Witness ==
    \E c, d \in Controllers :
        /\ HasEntry(anim[c].trace, << "log", "Waiting for Wasm to load" >>)
        /\ HasEntry(anim[d].trace, << "log", "Wasm loaded, fire immediately" >>)
        /\ IsSet(anim[c]._rive)
        /\ IsSet(anim[d]._rive)
        /\ \E j, k \in 1 .. Len(wasmCallbacks) :
               wasmCallbacks[j][1] = c /\ wasmCallbacks[k][1] = d

\* The selected artboard of a controller has no animations.
NoAnimations(s) == IsSet(s._artboard) /\ Len(Val(s._artboard)) = 0

\* The fetch chain of a controller failed: the fetch rejected, or
\* self._rive.load threw or yielded no file.
AssetFailed(s) ==
    \/ HasEntry(s.trace, << "throw", "FetchError" >>)
    \/ HasEntry(s.trace, << "rive.load", LoadThrows >>)
    \/ HasEntry(s.trace, << "rive.load", LoadYieldsNull >>)

\* C6 (as stated): when the selected artboard has zero animations,
\* 'loaderror' is emitted, 'load' is not, and the frame loop is not started,
\* neither by queued play tasks nor by a later play() call.
C6_NoAnimationsNoPlayback ==
    \A c \in Controllers :
        NoAnimations(anim[c]) =>
            /\ Emitted(anim[c], "loaderror")
            /\ ~Emitted(anim[c], "load")
            /\ anim[c].raf = 0

\* C7 (as stated): when fetching or parsing the asset fails (the fetch
\* rejects, the engine's load throws or yields no file), 'loaderror' is
\* emitted, 'load' never is, the controller stays not loaded and no queued
\* action runs.
C7_AssetFailureReported ==
    \A c \in Controllers :
        AssetFailed(anim[c]) =>
            /\ Emitted(anim[c], "loaderror")
            /\ ~Emitted(anim[c], "load")
            /\ ~anim[c]._loaded
            /\ ~HasEntry(anim[c].trace, << "action", "play" >>)

\* C8 (as stated): every load-phase failure (engine load, asset fetch,
\* asset parse, artboard without animations) results in at least one
\* 'loaderror' emission to the controller's listeners.
C8_EveryFailureReported ==
    \A c \in Controllers :
        (/\ HasFields(anim[c])
         /\ \/ wasmPromise = "rejected"
            \/ AssetFailed(anim[c])
            \/ NoAnimations(anim[c])) =>
            Emitted(anim[c], "loaderror")

\* The controller was constructed with an empty src.
EmptySrc(s) == s.exists /\ s.trace[1] = << "new", "" >>

\* C9: constructing with an empty src raises no exception (only later
\* calls of the caller raise one), and for that controller no engine-loaded
\* callback is registered or invoked, no asset is fetched, no queued task
\* runs and neither 'load' nor 'loaderror' is emitted.
C9_EmptySrcInert ==
    \A c \in Controllers :
        EmptySrc(anim[c]) =>
            /\ \A i \in 1 .. Len(anim[c].trace) :
                   anim[c].trace[i][1] \in {"throw", "uncaught"} =>
                       \E j \in 1 .. i - 1 : anim[c].trace[j][1] = "call"
            /\ \A k \in 1 .. Len(_wasmLoadQueue) : _wasmLoadQueue[k] # c
            /\ \A k \in 1 .. Len(wasmCallbacks) : wasmCallbacks[k][1] # c
            /\ anim[c].fetch = "none"
            /\ ~HasEntry(anim[c].trace, << "fetch", "" >>)
            /\ ~HasEntry(anim[c].trace, << "action", "play" >>)
            /\ anim[c].emits = << >>

\* A controller constructed with an empty src, after the engine has
\* resolved and the caller has called play() on it.
C9_Witness ==
    \E c \in Controllers :
        /\ EmptySrc(anim[c])
        /\ wasmPromise = "resolved"
        /\ anim[c].plays >= 1

\* C10: a queued action runs only after 'load' has been emitted, hence on a
\* loaded controller; while the engine load or the fetch has not completed
\* no queued action has run.
C10_ActionsOnlyAfterLoad ==
    \A c \in Controllers :
        /\ \A i \in 1 .. Len(anim[c].trace) :
               anim[c].trace[i] = << "action", "play" >> =>
                   \E j \in 1 .. i - 1 : anim[c].trace[j] = << "emit", "load" >>
        /\ HasEntry(anim[c].trace, << "action", "play" >>) => anim[c]._loaded
        /\ anim[c].fetch # "settled" =>
               ~HasEntry(anim[c].trace, << "action", "play" >>)

\* A queued play action has run, and 'loaderror' was emitted afterwards
\* without running another one.
C10_Witness ==
    \E c \in Controllers :
        /\ HasEntry(anim[c].trace, << "action", "play" >>)
        /\ Len(anim[c]._queue) > 0
        /\ Emitted(anim[c], "loaderror")

\* Tasks with an action pushed on a controller, by id: every task but the
\* 'load' marker, which is the first one pushed.
ActionTasks(s) == [k \in 1 .. s.enq - 1 |-> k + 1]

\* C11 (as stated): queued task actions run in insertion order, none is
\* skipped, and once the milestones have fired the queue is empty: after
\* the 'load' emission the actions that have run are those of all the
\* tasks pushed, in the order of the pushes, and no task is left.
C11_FifoDrain ==
    \A c \in Controllers :
        Emitted(anim[c], "load") =>
            /\ anim[c].ran = ActionTasks(anim[c])
            /\ anim[c]._queue = << >>

\* C12: when 'load' fires once, the action of each pushed task is run at
\* most once.
C12_ActionAtMostOnce ==
    \A c \in Controllers :
        EmitCount(anim[c], "load") <= 1 =>
            \A i, j \in 1 .. Len(anim[c].ran) :
                anim[c].ran[i] = anim[c].ran[j] => i = j

\* 'load' has fired on a controller with two queued play tasks, one of whose
\* actions has run, and the caller has called play() again afterwards.
C12_Witness ==
    \E c \in Controllers :
        /\ EmitCount(anim[c], "load") = 1
        /\ anim[c].enq >= 3
        /\ Len(anim[c].ran) >= 1
        /\ Count(anim[c].trace, LoadPos(anim[c]), Len(anim[c].trace),
                 << "call", "play" >>) >= 1

\* C13 (as stated): a play() call made before the controller is loaded
\* only pushes one task, and when 'load' fires all N queued play tasks, the
\* autoplay task included, run: N executions of play() and N 'play'
\* emissions.
C13_EveryQueuedPlayRuns ==
    \A c \in Controllers :
        LET s == anim[c]
        IN  /\ (HasFields(s) /\ ~s._loaded) =>
                   /\ s.enq = 1 + s.plays + (IF s._autoplay THEN 1 ELSE 0)
                   /\ Len(s._queue) = s.enq
                   /\ s.raf = 0
                   /\ ~Emitted(s, "play")
            /\ Emitted(s, "load") =>
                   LET n == EarlyPlays(s) + (IF s._autoplay THEN 1 ELSE 0)
                   IN  /\ Count(s.trace, LoadPos(s), LoadEnd(s),
                                << "action", "play" >>) = n
                       /\ Count(s.trace, LoadPos(s), LoadEnd(s),
                                << "emit", "play" >>) = n

\* C17 (as stated): constructing a LoopEvent with a loop value outside
\* {0, 1, 2} is rejected: an error is logged and the fields of the event are
\* not populated.
C17_InvalidLoopValueRejected ==
    \A i \in 1 .. Len(loopEvents) :
        loopEvents[i].loopValue \notin {0, 1, 2} =>
            /\ loopEvents[i].log = << "Invalid loop value" >>
            /\ loopEvents[i].obj = EmptyObject

\* 'loop' events emitted so far that carry the name of an animation.
LoopsFor(s, name) ==
    Cardinality({ n \in 1 .. Len(s.emits) :
                    /\ s.emits[n].event = "loop"
                    /\ s.emits[n].msg.animationName = Some(name) })

\* 'loop' events the last tick emitted for the animation at index i.
EmittedInTick(s, i) ==
    Cardinality({ k \in 1 .. Len(Val(s.tick).emitted) : Val(s.tick).emitted[k] = i })

\* The indices of the animations of a loop value on a controller that has
\* run a tick.
Ticked(s, loopValue) ==
    IF IsSet(s.tick) /\ IsSet(s._animations)
    THEN { i \in 1 .. Len(Val(s._animations)) :
             Val(s._animations)[i].loopValue = loopValue }
    ELSE {}

\* C14: for an animation whose loop mode is 'loop', a tick on which the
\* engine reports a raw loop signal emits exactly one 'loop' event for it on
\* that tick and leaves its counter at 0, and a tick without a raw signal emits
\* none; so it has had as many 'loop' events as raw signals.
C14_LoopEmitsPerSignal ==
    \A c \in Controllers :
        \A i \in Ticked(anim[c], 1) :
            LET s == anim[c]
            IN  /\ EmittedInTick(s, i) = (IF Val(s.tick).didLoop[i] THEN 1 ELSE 0)
                /\ Val(s._loopCounts)[i] = 0
                /\ LoopsFor(s, Val(s._animations)[i].name) = s.signals[i]

\* A 'loop' animation has looped on two ticks, the last one included, and a
\* 'loop' event was emitted on that tick.
C14_Witness ==
    \E c \in Controllers :
        \E i \in Ticked(anim[c], 1) :
            /\ anim[c].signals[i] >= 2
            /\ Val(anim[c].tick).didLoop[i]
            /\ EmittedInTick(anim[c], i) = 1

\* C15: for an animation whose loop mode is 'pingPong', one raw loop signal
\* emits no 'loop' event and the second accumulated one emits exactly one and
\* resets the counter to 0: after k raw signals floor(k/2) 'loop' events have
\* been emitted for it.
C15_PingPongEmitsEverySecond ==
    \A c \in Controllers :
        \A i \in Ticked(anim[c], 2) :
            LET s == anim[c]
                k == s.signals[i]
            IN  /\ LoopsFor(s, Val(s._animations)[i].name) = k \div 2
                /\ Val(s._loopCounts)[i] = k % 2
                /\ EmittedInTick(s, i) =
                       (IF Val(s.tick).didLoop[i] /\ k % 2 = 0 THEN 1 ELSE 0)

\* A 'pingPong' animation has reported three raw signals and one 'loop' event
\* has been emitted for it.
C15_Witness ==
    \E c \in Controllers :
        \E i \in Ticked(anim[c], 2) :
            /\ anim[c].signals[i] = 3
            /\ LoopsFor(anim[c], Val(anim[c]._animations)[i].name) = 1

\* C16: for an animation whose loop mode is 'oneShot' no 'loop' event is
\* ever emitted, whatever the number of raw loop signals.
C16_OneShotNeverEmits ==
    \A c \in Controllers :
        \A i \in Ticked(anim[c], 0) :
            /\ LoopsFor(anim[c], Val(anim[c]._animations)[i].name) = 0
            /\ EmittedInTick(anim[c], i) = 0

\* A 'oneShot' animation has reported two raw signals, the last one on the
\* last tick.
C16_Witness ==
    \E c \in Controllers :
        \E i \in Ticked(anim[c], 0) :
            /\ anim[c].signals[i] >= 2
            /\ Val(anim[c].tick).didLoop[i]
            /\ Val(anim[c].tick).completed

\* C18 (as stated): on(event, fn) never raises an error, for any event name,
\* any value of fn and any state of the controller, and a value that is not
\* callable is never added to a listener list.  A call of on() is a step that
\* counts one more call; an error it raises is recorded in the trace.
C18_OnNeverThrows ==
    [][\A c \in Controllers :
           anim'[c].ons = anim[c].ons + 1 =>
               /\ anim'[c].trace = anim[c].trace
               /\ \A e \in Events :
                      \/ anim'[c]._on[e] = anim[c]._on[e]
                      \/ \E fn \in Fns :
                             anim'[c]._on[e] = Append(anim[c]._on[e], fn)]_vars

EngineLoadFailed ==
    \E i \in 1 .. Len(console) : console[i] = "Unable to load Wasm module"

\* A controller has asked for the engine after the engine load had failed.
RequestedAfterFailure ==
    \E i, j \in 1 .. Len(console) :
        /\ i < j
        /\ console[i] = "Unable to load Wasm module"
        /\ console[j] \in {"Waiting for Wasm to load", "Wasm loaded, fire immediately"}

C21_ListenersAfterEmitReturns ==
    [][\A c \in Controllers :
           LET s == anim[c]
               t == anim'[c]
           IN  /\ Len(t.emits) > Len(s.emits) => t.calls = s.calls
               /\ \A k \in Len(s.calls) + 1 .. Len(t.calls) :
                      t.calls[k].em \in 1 .. Len(s.emits)]_vars

\* 'load' was emitted to a listener, the emission ran a queued play action
\* that emitted 'play', and listeners of both have been invoked since.
C21_Witness ==
    \E c \in Controllers :
        /\ Len(anim[c].ran) >= 1
        /\ \E j, k \in 1 .. Len(anim[c].calls) :
               /\ anim[c].emits[anim[c].calls[j].em].event = "load"
               /\ anim[c].emits[anim[c].calls[k].em].event = "play"

\* C22: firing an unrelated milestone drains nothing: in every state, for
\* every event e other than the event of the head task, _loadQueue(e) changes
\* nothing and _emit(e) leaves the queue as it is, runs no task action and
\* requests no frame.
C22_UnrelatedEventDrainsNothing ==
    \A c \in Controllers :
        LET s == anim[c]
        IN  (HasFields(s) /\ Len(s._queue) > 0) =>
                \A e \in Events \ {s._queue[1].event} :
                    /\ _loadQueue(s, e) = s
                    /\ _emit(s, e, "msg")._queue = s._queue
                    /\ _emit(s, e, "msg").ran = s.ran
                    /\ _emit(s, e, "msg").raf = s.raf
                    /\ _emit(s, e, "msg").exc = NoError

\* 'loaderror' has been emitted while the 'load' marker, followed by a play
\* task, was at the head of the queue, and both tasks are still there.
C22_Witness ==
    \E c \in Controllers :
        /\ Emitted(anim[c], "loaderror")
        /\ ~Emitted(anim[c], "load")
        /\ Len(anim[c]._queue) >= 2
        /\ anim[c]._queue[1].event = "load"
        /\ Len(anim[c]._queue) = anim[c].enq
        /\ anim[c].ran = << >>

\* C23: advancing the queue never attempts to call the action of a task that
\* has none: the 'load' marker, the first task pushed, is removed without a
\* call of its action, and when it is the only task of the queue the
\* emission of 'load' empties the queue and raises no error.
C23_MarkerActionNeverCalled ==
    \A c \in Controllers :
        /\ ~HasEntry(anim[c].trace, << "action", Undefined >>)
        /\ \A k \in 1 .. Len(anim[c].ran) : anim[c].ran[k] # 1
        /\ (Emitted(anim[c], "load") /\ anim[c].enq = 1) =>
               /\ anim[c]._queue = << >>
               /\ LoadPos(anim[c]) < Len(anim[c].trace) =>
                      anim[c].trace[LoadPos(anim[c]) + 1][1] # "throw"

\* 'load' was emitted on a controller whose queue held the 'load' marker
\* only, and the queue is empty.
C23_Witness ==
    \E c \in Controllers :
        /\ Emitted(anim[c], "load")
        /\ anim[c].enq = 1
        /\ anim[c]._queue = << >>
        /\ anim[c].plays = 0

\* A step of controller c is a tick in which an engine call throws.
FaultyTick(s, t) ==
    /\ t.ticks = s.ticks + 1
    /\ Val(t.tick).fault \in Faults

\* C24: when an engine call throws during a tick the error is not caught by
\* the loop (it reaches the host), the tick requests no next frame, so one
\* pending tick fewer is left, and nothing but a play() call or the queued
\* play tasks of the 'load' emission ever requests a frame again.
C24_EngineErrorEndsLoop ==
    [][\A c \in Controllers :
           LET s == anim[c]
               t == anim'[c]
           IN  /\ FaultyTick(s, t) =>
                      /\ ~Val(t.tick).completed
                      /\ t.trace[Len(t.trace)][1] = "uncaught"
                      /\ t.raf = s.raf - 1
                      /\ Count(t.trace, 1, Len(t.trace), << "raf", "_draw" >>)
                             = Count(s.trace, 1, Len(s.trace), << "raf", "_draw" >>)
               /\ t.raf > s.raf =>
                      \/ t.plays = s.plays + 1
                      \/ ~Emitted(s, "load") /\ Emitted(t, "load")]_vars

\* After two ticks, an engine call has thrown in the third, the error has
\* reached the host and no tick is pending.
C24_Witness ==
    \E c \in Controllers :
        /\ anim[c].ticks >= 3
        /\ Val(anim[c].tick).fault \in Faults
        /\ anim[c].trace[Len(anim[c].trace)] = << "uncaught", "EngineError" >>
        /\ anim[c].raf = 0

\* The animations a controller has to instance: the requested ones, or the
\* first animation of the artboard when none was requested.
Requested(s) ==
    IF IsSet(s._animationNames)
    THEN Val(s._animationNames)
    ELSE << Val(s._artboard)[1].name >>

\* C25: whenever 'load' is emitted playback initialization has completed:
\* the artboard is selected, the context and the renderer are created, there
\* is one instance and one zeroed loop counter per requested animation (one
\* for the first animation when none was requested), and the first frame was
\* painted, in that order, right before the emission.
C25_LoadAfterInitialization ==
    \A c \in Controllers :
        LET s == anim[c]
        IN  Emitted(s, "load") =>
                /\ IsSet(s._artboard) /\ s._artboard = s._file
                /\ s._ctx # Null
                /\ s._renderer = "CanvasRenderer"
                /\ IsSet(s._animations) /\ IsSet(s._instances) /\ IsSet(s._loopCounts)
                /\ Names(Val(s._animations)) = Requested(s)
                /\ Val(s._instances) = Requested(s)
                /\ Len(Val(s._loopCounts)) = Len(Requested(s))
                /\ s.ticks = 0 =>
                       \A k \in 1 .. Len(Val(s._loopCounts)) : Val(s._loopCounts)[k] = 0
                /\ LoadPos(s) > 2
                /\ s.trace[LoadPos(s) - 2] = << "init", "done" >>
                /\ s.trace[LoadPos(s) - 1] = << "paint", "frame" >>

\* 'load' was emitted on a controller given no animations option whose
\* artboard has two animations: the first one is the only one instanced.
C25_Witness ==
    \E c \in Controllers :
        /\ Emitted(anim[c], "load")
        /\ ~IsSet(anim[c]._animationNames)
        /\ Len(Val(anim[c]._artboard)) = 2
        /\ Len(Val(anim[c]._instances)) = 1

\* C26: a loop counter is never negative and is 0 right after a 'loop'
\* event was emitted for its animation; at the end of every tick (a tick that
\* ran to its end) the counter of a 'loop' animation is 0 and the counter of
\* a 'pingPong' animation is at most 1.
C26_LoopCounterRange ==
    \A c \in Controllers :
        LET s == anim[c]
        IN  IsSet(s._loopCounts) =>
                \A i \in 1 .. Len(Val(s._loopCounts)) :
                    /\ Val(s._loopCounts)[i] >= 0
                    /\ (IsSet(s.tick) /\ Val(s.tick).completed) =>
                           /\ EmittedInTick(s, i) > 0 => Val(s._loopCounts)[i] = 0
                           /\ Val(s._animations)[i].loopValue = 1 =>
                                  Val(s._loopCounts)[i] = 0
                           /\ Val(s._animations)[i].loopValue = 2 =>
                                  Val(s._loopCounts)[i] <= 1

\* A tick has ended in which a 'loop' animation emitted its event and after
\* which a 'pingPong' animation, reset once already, has its counter at 1.
C26_Witness ==
    \E c \in Controllers :
        \E i \in Ticked(anim[c], 1), j \in Ticked(anim[c], 2) :
            /\ Val(anim[c].tick).completed
            /\ EmittedInTick(anim[c], i) = 1
            /\ anim[c].signals[j] = 3
            /\ Val(anim[c]._loopCounts)[j] = 1

\* C27: on the first tick (no timestamp recorded) the elapsed time is 0; on
\* every later tick it is (now - previous) / 1000, previous being the
\* timestamp of the tick before it; the tick records now as the previous
\* timestamp; and as the timestamps of the host never decrease the elapsed
\* time is never negative.
C27_ElapsedTime ==
    [][\A c \in Controllers :
           LET s == anim[c]
               t == anim'[c]
               now == Val(t.tick).time
           IN  t.ticks = s.ticks + 1 =>
                   /\ ~IsSet(s.tick) => Val(t.tick).elapsedTime = << 0, 1000 >>
                   /\ IsSet(s.tick) =>
                          /\ Val(t.tick).elapsedTime = << now - Val(s.tick).time, 1000 >>
                          /\ now >= Val(s.tick).time
                   /\ Val(t.tick).elapsedTime[1] >= 0
                   /\ t._lastTime = Some(now)]_vars

\* Three ticks have run: two of them in one frame, for two frame loops, the
\* last one a frame after the one before it.
C27_Witness ==
    \E c \in Controllers :
        /\ anim[c].ticks = 3
        /\ Val(anim[c].tick).time = 2 * FrameMs
        /\ Val(anim[c].tick).elapsedTime = << FrameMs, 1000 >>

\* Playback initialization has completed on a controller.
Initialized(s) ==
    /\ IsSet(s._artboard)
    /\ s._ctx # Null
    /\ s._renderer # Undefined
    /\ IsSet(s._instances)
    /\ IsSet(s._loopCounts)

\* C28 (as stated): the frame loop is never scheduled unless playback
\* initialization has completed successfully: whenever a tick is pending or
\* has run, the artboard, the context, the renderer, the instances and the
\* loop counters of the controller are all set.
C28_LoopOnlyAfterInitialization ==
    \A c \in Controllers :
        (anim[c].raf > 0 \/ anim[c].ticks > 0) => Initialized(anim[c])

\* C29 (as stated): at any time at most one frame-loop chain is pending per
\* controller.
C29_OneFrameLoop ==
    \A c \in Controllers : anim[c].raf <= 1

\* C30 (as stated): for one controller 'load' is emitted at most once, and no
\* execution emits both 'load' and 'loaderror' for it.
C30_LoadOnceAndExclusive ==
    \A c \in Controllers :
        /\ EmitCount(anim[c], "load") <= 1
        /\ ~(Emitted(anim[c], "load") /\ Emitted(anim[c], "loaderror"))

\* C31 (as stated): once the handler that emitted 'load' has completed, the
\* task queue of the controller is empty, and it stays empty in every later
\* state.
C31_QueueEmptyAfterLoad ==
    \A c \in Controllers :
        Emitted(anim[c], "load") => anim[c]._queue = << >>

\* The controllers that registered an engine-loaded callback (constructed with
\* a source), in construction order.
Registered == { c \in Controllers : anim[c].exists /\ HasFields(anim[c]) }

\* The engine-loaded callbacks invoked so far for controller c.
CallbacksOf(c) == { k \in 1 .. Len(wasmCallbacks) : wasmCallbacks[k][1] = c }

\* C32, the states: while the engine is not there no callback has been
\* invoked and the wait queue holds the registered controllers, once each, in
\* construction order; once it is there the wait queue is empty, every
\* registered controller has had its callback invoked exactly once, and the
\* invocations are in construction order.
C32_CallbackState ==
    /\ ~IsSet(_rive) =>
           /\ wasmCallbacks = << >>
           /\ \A c \in Registered : \E k \in 1 .. Len(_wasmLoadQueue) : _wasmLoadQueue[k] = c
           /\ \A j, k \in 1 .. Len(_wasmLoadQueue) :
                  j < k => _wasmLoadQueue[j] < _wasmLoadQueue[k]
           /\ \A k \in 1 .. Len(_wasmLoadQueue) : _wasmLoadQueue[k] \in Registered
    /\ IsSet(_rive) =>
           /\ _wasmLoadQueue = << >>
           /\ \A c \in Registered : Cardinality(CallbacksOf(c)) = 1
           /\ \A k \in 1 .. Len(wasmCallbacks) : wasmCallbacks[k][1] \in Registered
           /\ \A j, k \in 1 .. Len(wasmCallbacks) :
                  j < k => wasmCallbacks[j][1] < wasmCallbacks[k][1]

\* C32, the steps: the step in which the engine load resolves invokes the
\* callbacks of the waiting controllers, in the order of the wait queue, and
\* no other step invokes a callback of a waiting controller; the
\* construction of a controller with a source when the engine is there
\* invokes its callback in that step and leaves the wait queue alone.
C32_CallbackStep ==
    /\ (~IsSet(_rive) /\ IsSet(_rive')) =>
           wasmCallbacks' = [k \in 1 .. Len(_wasmLoadQueue) |->
                                << _wasmLoadQueue[k], Val(_rive') >>]
    /\ (~IsSet(_rive) /\ ~IsSet(_rive')) => wasmCallbacks' = wasmCallbacks
    /\ \A c \in Controllers :
           (~anim[c].exists /\ anim'[c].exists /\ HasFields(anim'[c]) /\ IsSet(_rive)) =>
               /\ wasmCallbacks' = Append(wasmCallbacks, << c, Val(_rive) >>)
               /\ _wasmLoadQueue' = _wasmLoadQueue
               /\ anim'[c].fetch = "pending"
    /\ IsSet(_rive) =>
           \A k \in 1 .. Len(wasmCallbacks) : wasmCallbacks'[k] = wasmCallbacks[k]

====
